---- MODULE Spec2Model ----
(***************************************************************************)
(* Course Scheduler (src/main.py): the overlap predicate, the schedule     *)
(* enumeration/validation/ordering of generate_schedules, and the          *)
(* load/save/edit handlers of CourseSchedulerApp over the JSON store.      *)
(*                                                                         *)
(* Data representation                                                     *)
(*   time      <<hour, minute>>   a datetime.time of minute resolution     *)
(*   section   <<day, start, end>>  the tuple the code stores              *)
(*   catalog   a sequence of [name, sections] records: a Python dict in    *)
(*             insertion order (active_courses, users_data[sid]["courses"])*)
(*   "HH:MM"   a sequence of five one-character strings                    *)
(***************************************************************************)
EXTENDS Integers, Sequences, FiniteSets, TLC

VARIABLES
    users_data,               \* self.users_data: student id -> stored catalog
    data_file,                \* the file schedules_data.json on disk
    active_student_id,        \* self.active_student_id
    active_courses,           \* self.active_courses
    current_course_sections,  \* self.current_course_sections
    output,                   \* what the last handler wrote to output_box
    valid_schedules,          \* generate_schedules: local valid_schedules
    schedule_infos,           \* generate_schedules: the sorted schedule_info lists
    last_op,                  \* the handler that ran last and its arguments
    probe                     \* a pair of sections and times_overlap of them

vars == <<users_data, data_file, active_student_id, active_courses,
          current_course_sections, output, valid_schedules, schedule_infos,
          last_op, probe>>

----------------------------------------------------------------------------
(* Bounds *)

MaxCourses == 2
MaxSections == 2

----------------------------------------------------------------------------
(* Strings *)

\* str.lower() on the day strings of the model
Lower(s) ==
    CASE s \in {"Monday", "MONDAY", "monday"} -> "monday"
      [] s \in {"Tuesday", "tuesday"} -> "tuesday"
      [] s \in {"Funday", "funday"} -> "funday"
      [] OTHER -> s

\* str.capitalize() on the day strings of the model
Capitalize(s) ==
    CASE s \in {"Monday", "MONDAY", "monday"} -> "Monday"
      [] s \in {"Tuesday", "tuesday"} -> "Tuesday"
      [] s \in {"Funday", "funday"} -> "Funday"
      [] OTHER -> s

\* str.strip() on the entry texts of the model
Strip(s) ==
    CASE s = " " -> ""
      [] s = " s1 " -> "s1"
      [] s = " A" -> "A"
      [] s = " Algo " -> "Algo"
      [] OTHER -> s

----------------------------------------------------------------------------
(* datetime.time *)

\* datetime.time.__lt__: hour first, then minute
TimeLT(t1, t2) == t1[1] < t2[1] \/ (t1[1] = t2[1] /\ t1[2] < t2[2])

\* datetime.time.__gt__
TimeGT(t1, t2) == TimeLT(t2, t1)

TimeLEStrict(t1, t2) == TimeLT(t1, t2)

\* datetime.time.__le__
TimeLE(t1, t2) == TimeLT(t1, t2) \/ t1 = t2

\* time(hour=h, minute=m) raises ValueError outside 0..23 / 0..59
TimeValid(h, m) == h \in 0..23 /\ m \in 0..59

----------------------------------------------------------------------------
(* Utility functions *)

times_overlap_case_sensitive(section1, section2) ==
    IF section1[1] # section2[1]
    THEN FALSE
    ELSE TimeLT(section1[2], section2[3]) /\ TimeGT(section1[3], section2[2])

times_overlap_flipped(section1, section2) ==
    IF Lower(section1[1]) # Lower(section2[1])
    THEN FALSE
    ELSE TimeLE(section1[2], section2[3]) /\ TimeGT(section1[3], section2[2])

times_overlap(section1, section2) ==
    IF Lower(section1[1]) # Lower(section2[1])
    THEN FALSE
    ELSE TimeLT(section1[2], section2[3]) /\ TimeGT(section1[3], section2[2])

is_valid_schedule_skip_first(schedule) ==
    \A i \in 2..Len(schedule) :
        \A j \in (i + 1)..Len(schedule) :
            ~times_overlap(schedule[i], schedule[j])

\* the nested loops return False at the first overlapping pair i < j
is_valid_schedule(schedule) ==
    \A i \in 1..Len(schedule) :
        \A j \in (i + 1)..Len(schedule) :
            ~times_overlap(schedule[i], schedule[j])

day_order ==
    [d \in {"monday", "tuesday", "wednesday", "thursday", "friday",
            "saturday", "sunday"} |->
        CASE d = "monday" -> 0
          [] d = "tuesday" -> 1
          [] d = "wednesday" -> 2
          [] d = "thursday" -> 3
          [] d = "friday" -> 4
          [] d = "saturday" -> 5
          [] d = "sunday" -> 6]

DayDefault == 999

get_day_index_exact(day_str) ==
    IF day_str \in DOMAIN day_order THEN day_order[day_str] ELSE DayDefault

\* day_order.get(day_str.lower(), 999)
get_day_index(day_str) ==
    IF Lower(day_str) \in DOMAIN day_order
    THEN day_order[Lower(day_str)]
    ELSE DayDefault

Digits == <<"0", "1", "2", "3", "4", "5", "6", "7", "8", "9">>

DigitValue(c) == (CHOOSE k \in 1..10 : Digits[k] = c) - 1

time_to_string_12h(t) ==
    LET h == IF t[1] % 12 = 0 THEN 12 ELSE t[1] % 12
    IN  <<Digits[(h \div 10) + 1], Digits[(h % 10) + 1], ":",
          Digits[(t[2] \div 10) + 1], Digits[(t[2] % 10) + 1]>>

\* t.strftime("%H:%M"): two zero-padded digits, a colon, two zero-padded digits
time_to_string(t) ==
    <<Digits[(t[1] \div 10) + 1], Digits[(t[1] % 10) + 1], ":",
      Digits[(t[2] \div 10) + 1], Digits[(t[2] % 10) + 1]>>

\* datetime.strptime(s, "%H:%M").time() on a five-character "HH:MM"
string_to_time(s) ==
    <<10 * DigitValue(s[1]) + DigitValue(s[2]),
      10 * DigitValue(s[4]) + DigitValue(s[5])>>

----------------------------------------------------------------------------
(* Python built-ins used by generate_schedules *)

\* itertools.product(*pools): result = [[]]; for each pool,
\* result = [x + [y] for x in result for y in pool]
ProductStepPoolMajor(result, pool) ==
    [k \in 1..(Len(result) * Len(pool)) |->
        Append(result[((k - 1) % Len(result)) + 1],
               pool[((k - 1) \div Len(result)) + 1])]

ProductStepSkipEmpty(result, pool) ==
    IF pool = <<>> THEN result
    ELSE [k \in 1..(Len(result) * Len(pool)) |->
             Append(result[((k - 1) \div Len(pool)) + 1],
                    pool[((k - 1) % Len(pool)) + 1])]

\* [x + [y] for x in result for y in pool]
ProductStep(result, pool) ==
    [k \in 1..(Len(result) * Len(pool)) |->
        Append(result[((k - 1) \div Len(pool)) + 1],
               pool[((k - 1) % Len(pool)) + 1])]

RECURSIVE product(_)
product(pools) ==
    IF pools = <<>>
    THEN << <<>> >>
    ELSE ProductStep(product(SubSeq(pools, 1, Len(pools) - 1)), pools[Len(pools)])

\* the sort key of generate_schedules: (get_day_index(x[0]), x[1])
SortKeyLT(x, y) ==
    \/ get_day_index(x[1]) < get_day_index(y[1])
    \/ /\ get_day_index(x[1]) = get_day_index(y[1])
       /\ TimeLT(x[2], y[2])

\* insert x behind every element whose key is not greater (stability)
RECURSIVE InsertSorted(_, _)
InsertSorted(sorted, x) ==
    IF sorted = <<>> THEN <<x>>
    ELSE IF SortKeyLT(x, sorted[1])
         THEN <<x>> \o sorted
         ELSE <<sorted[1]>> \o InsertSorted(Tail(sorted), x)

\* list.sort(key=...): a stable ascending sort
RECURSIVE SortByKey(_)
SortByKey(list) ==
    IF list = <<>> THEN <<>>
    ELSE InsertSorted(SortByKey(SubSeq(list, 1, Len(list) - 1)), list[Len(list)])

----------------------------------------------------------------------------
(* Python dict operations on a catalog (insertion-ordered) *)

DictKeys(d) == [i \in 1..Len(d) |-> d[i].name]

DictHas(d, k) == \E i \in 1..Len(d) : d[i].name = k

DictGet(d, k) == d[CHOOSE i \in 1..Len(d) : d[i].name = k].sections

\* d[k] = v: an existing key keeps its position, a new key goes last
DictSet(d, k, v) ==
    IF DictHas(d, k)
    THEN [i \in 1..Len(d) |-> IF d[i].name = k THEN [name |-> k, sections |-> v] ELSE d[i]]
    ELSE Append(d, [name |-> k, sections |-> v])

\* del d[k]
DictDel(d, k) == SelectSeq(d, LAMBDA e : e.name # k)

\* list.pop(index), index counted from 0
ListPop(list, index) ==
    SubSeq(list, 1, index) \o SubSeq(list, index + 2, Len(list))

----------------------------------------------------------------------------
(* The store *)

None == "None"

EmptyStore == [sid \in {} |-> <<>>]

\* save_student_data: final_dict, each time as an "HH:MM" string
ToStrings(courses) ==
    [i \in 1..Len(courses) |->
        [name |-> courses[i].name,
         sections |-> [j \in 1..Len(courses[i].sections) |->
             <<courses[i].sections[j][1],
               time_to_string(courses[i].sections[j][2]),
               time_to_string(courses[i].sections[j][3])>>]]]

\* load_student_data: each "HH:MM" string back to a time
ToTimes(courses) ==
    [i \in 1..Len(courses) |->
        [name |-> courses[i].name,
         sections |-> [j \in 1..Len(courses[i].sections) |->
             <<courses[i].sections[j][1],
               string_to_time(courses[i].sections[j][2]),
               string_to_time(courses[i].sections[j][3])>>]]]

\* users_data[sid] = {"courses": {}} when sid is not a key yet
EnsureStudent(data, sid) ==
    IF sid \in DOMAIN data THEN data ELSE data @@ (sid :> <<>>)

\* the three states of schedules_data.json
FileMissing == [state |-> "missing", content |-> EmptyStore]
FileCorrupt == [state |-> "corrupt", content |-> EmptyStore]
FileJson(data) == [state |-> "json", content |-> data]

\* the handler that ran last: its name, its argument, how it ended
\* (a load of the active student right after a written save ends "reloaded")
Op(name, arg, outcome) == [name |-> name, arg |-> arg, outcome |-> outcome]

NoOutput == [msg |-> "", detail |-> ""]
Message(msg, detail) == [msg |-> msg, detail |-> detail]

----------------------------------------------------------------------------
(* Inputs of the handlers *)

Students == {"s1", "s2"}
StudentEntries == {"", " ", " s1 ", "s2"}
CourseEntries == {"", " ", " A"}
\* (day_var, start_hour_var, start_min_var, end_hour_var, end_min_var)
SectionEntries ==
    { <<"Monday", 9, 0, 10, 30>>,     \* accepted
      <<"Monday", 10, 30, 9, 0>>,     \* end before start
      <<"Monday", 9, 0, 9, 0>>,       \* end equal to start
      <<"Monday", 24, 0, 10, 30>>,    \* hour out of range
      <<"Monday", 9, 0, 10, 60>> }    \* minute out of range
WriteOutcomes == {"written", "open_failed", "dump_failed"}

\* the listbox selections: () or (index,), index counted from 0
Selections(n) == {<<>>} \cup {<<i>> : i \in 0..(n - 1)}

\* saved_courses_listbox is refreshed from active_courses.keys() by every
\* handler that changes active_courses
saved_courses_listbox == DictKeys(active_courses)

\* generate_schedules' locals are gone once another handler runs
LocalsGone == valid_schedules' = <<>> /\ schedule_infos' = <<>>

----------------------------------------------------------------------------
(* Handlers of CourseSchedulerApp *)

load_student_data(text) ==
    LET sid == Strip(text)
    IN  IF sid = ""
        THEN /\ output' = Message("Please enter a valid Student ID first.", "")
             /\ last_op' = Op("load_student_data", text, "rejected")
             /\ LocalsGone
             /\ UNCHANGED <<users_data, data_file, active_student_id,
                            active_courses, current_course_sections, probe>>
        ELSE LET read == IF data_file.state = "json" THEN data_file.content
                         ELSE IF data_file.state = "corrupt" THEN EmptyStore
                         ELSE users_data
                 data == EnsureStudent(read, sid)
             IN  /\ users_data' = data
                 /\ active_student_id' = sid
                 /\ active_courses' = ToTimes(data[sid])
                 /\ output' = Message("Loaded data for student ID", sid)
                 /\ last_op' = Op("load_student_data", text,
                                  IF last_op.outcome = "written" /\ active_student_id = sid
                                  THEN "reloaded" ELSE "loaded")
                 /\ LocalsGone
                 /\ UNCHANGED <<data_file, current_course_sections, probe>>

SaveOutputSwallowed(auto, write, sid) ==
    IF auto \/ write # "written" THEN NoOutput
    ELSE Message("Data saved for student ID", sid)

\* what save_student_data tells the caller after the write
SaveOutput(auto, write, sid) ==
    IF auto THEN NoOutput
    ELSE IF write = "written"
         THEN Message("Data saved for student ID", sid)
         ELSE Message("Error saving data", write)

\* save_student_data(auto) called by handler `name`
SaveStudentData(name, auto) ==
    IF active_student_id = None
    THEN /\ output' = IF auto THEN NoOutput
                      ELSE Message("No active student selected.", "")
         /\ last_op' = Op(name, IF auto THEN "auto" ELSE "button", "rejected")
         /\ LocalsGone
         /\ UNCHANGED <<users_data, data_file, active_student_id,
                        active_courses, current_course_sections, probe>>
    ELSE LET sid == active_student_id
             data == [EnsureStudent(users_data, sid) EXCEPT
                         ![sid] = ToStrings(active_courses)]
         IN  /\ users_data' = data
             /\ \E write \in WriteOutcomes :
                    /\ data_file' =
                          CASE write = "written" -> FileJson(data)
                            [] write = "open_failed" -> data_file
                            [] write = "dump_failed" -> FileCorrupt
                    /\ output' = SaveOutput(auto, write, sid)
                    /\ last_op' = Op(name, IF auto THEN "auto" ELSE "button", write)
             /\ LocalsGone
             /\ UNCHANGED <<active_student_id, active_courses,
                            current_course_sections, probe>>

\* the "Save Student Data" button
save_student_data == SaveStudentData("save_student_data", FALSE)

\* the 5-second timer
auto_save ==
    IF active_student_id # None
    THEN SaveStudentData("auto_save", TRUE)
    ELSE /\ output' = NoOutput
         /\ last_op' = Op("auto_save", "auto", "idle")
         /\ LocalsGone
         /\ UNCHANGED <<users_data, data_file, active_student_id,
                        active_courses, current_course_sections, probe>>

show_all_users ==
    /\ IF data_file.state = "json"
       THEN /\ users_data' = data_file.content
            /\ output' = Message("All Users", "")
            /\ last_op' = Op("show_all_users", "", "shown")
       ELSE /\ users_data' = users_data
            /\ output' = IF data_file.state = "corrupt"
                         THEN Message("Error reading data file.", "")
                         ELSE Message("No data file found.", "")
            /\ last_op' = Op("show_all_users", "", "rejected")
    /\ LocalsGone
    /\ UNCHANGED <<data_file, active_student_id, active_courses,
                   current_course_sections, probe>>

add_section(day_var, start_h, start_m, end_h, end_m) ==
    LET day == Capitalize(day_var)
        start_time == <<start_h, start_m>>
        end_time == <<end_h, end_m>>
    IN  IF ~TimeValid(start_h, start_m) \/ ~TimeValid(end_h, end_m)
        THEN /\ output' = Message("Invalid time values.", "")
             /\ last_op' = Op("add_section", "", "rejected")
             /\ LocalsGone
             /\ UNCHANGED <<users_data, data_file, active_student_id,
                            active_courses, current_course_sections, probe>>
        ELSE IF TimeLE(end_time, start_time)
        THEN /\ output' = Message("End time must be after start time.", "")
             /\ last_op' = Op("add_section", "", "rejected")
             /\ LocalsGone
             /\ UNCHANGED <<users_data, data_file, active_student_id,
                            active_courses, current_course_sections, probe>>
        ELSE /\ Len(current_course_sections) < MaxSections
             /\ current_course_sections' =
                    Append(current_course_sections, <<day, start_time, end_time>>)
             /\ output' = NoOutput
             /\ last_op' = Op("add_section", "", "added")
             /\ LocalsGone
             /\ UNCHANGED <<users_data, data_file, active_student_id,
                            active_courses, probe>>

delete_section_first(selection) ==
    IF selection = <<>>
    THEN /\ current_course_sections' = ListPop(current_course_sections, 0)
         /\ output' = Message("No section selected.", "")
         /\ last_op' = Op("delete_section", "none", "rejected")
         /\ LocalsGone
         /\ UNCHANGED <<users_data, data_file, active_student_id,
                        active_courses, probe>>
    ELSE /\ current_course_sections' = ListPop(current_course_sections, selection[1])
         /\ output' = Message("Deleted selected section.", "")
         /\ last_op' = Op("delete_section", "selected", "deleted")
         /\ LocalsGone
         /\ UNCHANGED <<users_data, data_file, active_student_id,
                        active_courses, probe>>

delete_section(selection) ==
    IF selection = <<>>
    THEN /\ output' = Message("No section selected.", "")
         /\ last_op' = Op("delete_section", "none", "rejected")
         /\ LocalsGone
         /\ UNCHANGED <<users_data, data_file, active_student_id,
                        active_courses, current_course_sections, probe>>
    ELSE /\ current_course_sections' = ListPop(current_course_sections, selection[1])
         /\ output' = Message("Deleted selected section.", "")
         /\ last_op' = Op("delete_section", "selected", "deleted")
         /\ LocalsGone
         /\ UNCHANGED <<users_data, data_file, active_student_id,
                        active_courses, probe>>

save_course_any_sections(entry_course_name) ==
    LET course_name == Strip(entry_course_name)
    IN  IF active_student_id = None \/ course_name = ""
        THEN /\ output' = Message("Course not saved.", "")
             /\ last_op' = Op("save_course", entry_course_name, "rejected")
             /\ LocalsGone
             /\ UNCHANGED <<users_data, data_file, active_student_id,
                            active_courses, current_course_sections, probe>>
        ELSE /\ DictHas(active_courses, course_name) \/ Len(active_courses) < MaxCourses
             /\ active_courses' = DictSet(active_courses, course_name, current_course_sections)
             /\ current_course_sections' = <<>>
             /\ output' = Message("Course saved/updated for student", course_name)
             /\ last_op' = Op("save_course", entry_course_name, "saved")
             /\ LocalsGone
             /\ UNCHANGED <<users_data, data_file, active_student_id, probe>>

save_course(entry_course_name) ==
    LET course_name == Strip(entry_course_name)
    IN  IF active_student_id = None
        THEN /\ output' = Message("No active student. Please load a student first.", "")
             /\ last_op' = Op("save_course", entry_course_name, "rejected")
             /\ LocalsGone
             /\ UNCHANGED <<users_data, data_file, active_student_id,
                            active_courses, current_course_sections, probe>>
        ELSE IF course_name = ""
        THEN /\ output' = Message("Please enter a Course Name.", "")
             /\ last_op' = Op("save_course", entry_course_name, "rejected")
             /\ LocalsGone
             /\ UNCHANGED <<users_data, data_file, active_student_id,
                            active_courses, current_course_sections, probe>>
        ELSE IF current_course_sections = <<>>
        THEN /\ output' = Message("No sections for this course.", "")
             /\ last_op' = Op("save_course", entry_course_name, "rejected")
             /\ LocalsGone
             /\ UNCHANGED <<users_data, data_file, active_student_id,
                            active_courses, current_course_sections, probe>>
        ELSE /\ DictHas(active_courses, course_name) \/ Len(active_courses) < MaxCourses
             /\ active_courses' = DictSet(active_courses, course_name, current_course_sections)
             /\ current_course_sections' = <<>>
             /\ output' = Message("Course saved/updated for student", course_name)
             /\ last_op' = Op("save_course", entry_course_name, "saved")
             /\ LocalsGone
             /\ UNCHANGED <<users_data, data_file, active_student_id, probe>>

edit_course(selection) ==
    IF selection = <<>>
    THEN /\ output' = Message("No course selected to edit.", "")
         /\ last_op' = Op("edit_course", "none", "rejected")
         /\ LocalsGone
         /\ UNCHANGED <<users_data, data_file, active_student_id,
                        active_courses, current_course_sections, probe>>
    ELSE LET course_name == saved_courses_listbox[selection[1] + 1]
         IN  /\ current_course_sections' = DictGet(active_courses, course_name)
             /\ active_courses' = DictDel(active_courses, course_name)
             /\ output' = Message("Course loaded for editing.", course_name)
             /\ last_op' = Op("edit_course", course_name, "editing")
             /\ LocalsGone
             /\ UNCHANGED <<users_data, data_file, active_student_id, probe>>

delete_course(selection) ==
    IF selection = <<>>
    THEN /\ output' = Message("No course selected to delete.", "")
         /\ last_op' = Op("delete_course", "none", "rejected")
         /\ LocalsGone
         /\ UNCHANGED <<users_data, data_file, active_student_id,
                        active_courses, current_course_sections, probe>>
    ELSE LET course_name == saved_courses_listbox[selection[1] + 1]
         IN  /\ active_courses' = IF DictHas(active_courses, course_name)
                                  THEN DictDel(active_courses, course_name)
                                  ELSE active_courses
             /\ output' = Message("Course deleted.", course_name)
             /\ last_op' = Op("delete_course", course_name, "deleted")
             /\ LocalsGone
             /\ UNCHANGED <<users_data, data_file, active_student_id,
                            current_course_sections, probe>>

show_all_courses ==
    /\ output' = IF active_student_id = None
                 THEN Message("No active student.", "")
                 ELSE IF active_courses = <<>>
                      THEN Message("No courses saved for student", active_student_id)
                      ELSE Message("Courses for Student", active_student_id)
    /\ last_op' = Op("show_all_courses", "", "shown")
    /\ LocalsGone
    /\ UNCHANGED <<users_data, data_file, active_student_id, active_courses,
                   current_course_sections, probe>>

\* schedule_info of one schedule: (day, st, et, cname) per course, sorted
ScheduleInfo(course_names, schedule) ==
    SortByKey([i \in 1..Len(schedule) |->
        <<schedule[i][1], schedule[i][2], schedule[i][3], course_names[i]>>])

generate_schedules ==
    IF active_student_id = None
    THEN /\ output' = Message("No active student. Please load a student first.", "")
         /\ last_op' = Op("generate_schedules", "", "rejected")
         /\ LocalsGone
         /\ UNCHANGED <<users_data, data_file, active_student_id,
                        active_courses, current_course_sections, probe>>
    ELSE IF active_courses = <<>>
    THEN /\ output' = Message("No courses found for student", active_student_id)
         /\ last_op' = Op("generate_schedules", "", "rejected")
         /\ LocalsGone
         /\ UNCHANGED <<users_data, data_file, active_student_id,
                        active_courses, current_course_sections, probe>>
    ELSE LET course_names == DictKeys(active_courses)
             all_combinations ==
                 product([i \in 1..Len(course_names) |->
                             DictGet(active_courses, course_names[i])])
         IN  /\ valid_schedules' = SelectSeq(all_combinations, is_valid_schedule)
             /\ schedule_infos' =
                    [k \in 1..Len(valid_schedules') |->
                        ScheduleInfo(course_names, valid_schedules'[k])]
             /\ output' = Message("Found valid schedules for student",
                                  Len(valid_schedules'))
             /\ last_op' = Op("generate_schedules", "", "generated")
             /\ UNCHANGED <<users_data, data_file, active_student_id,
                            active_courses, current_course_sections, probe>>

----------------------------------------------------------------------------
(* The application, started on an empty store *)

NoProbe == [a |-> <<>>, b |-> <<>>, ab |-> FALSE, ba |-> FALSE, done |-> FALSE]

Init ==
    /\ users_data = EmptyStore
    /\ data_file = FileMissing
    /\ active_student_id = None
    /\ active_courses = <<>>
    /\ current_course_sections = <<>>
    /\ output = NoOutput
    /\ valid_schedules = <<>>
    /\ schedule_infos = <<>>
    /\ last_op = Op("__init__", "", "constructed")
    /\ probe = NoProbe

LoadStudentData == \E text \in StudentEntries : load_student_data(text)
SaveStudentDataButton == save_student_data
AutoSave == auto_save
ShowAllUsers == show_all_users
AddSection ==
    \E e \in SectionEntries : add_section(e[1], e[2], e[3], e[4], e[5])
DeleteSection ==
    \E selection \in Selections(Len(current_course_sections)) : delete_section(selection)
SaveCourse == \E text \in CourseEntries : save_course(text)
EditCourse == \E selection \in Selections(Len(saved_courses_listbox)) : edit_course(selection)
DeleteCourse == \E selection \in Selections(Len(saved_courses_listbox)) : delete_course(selection)
ShowAllCourses == show_all_courses
GenerateSchedules == generate_schedules

Next ==
    \/ LoadStudentData
    \/ SaveStudentDataButton
    \/ AutoSave
    \/ ShowAllUsers
    \/ AddSection
    \/ DeleteSection
    \/ SaveCourse
    \/ EditCourse
    \/ DeleteCourse
    \/ ShowAllCourses
    \/ GenerateSchedules

Spec == Init /\ [][Next]_vars

----------------------------------------------------------------------------
(* generate_schedules on a store written by an earlier session *)

CourseNames == <<"Math", "Phys", "Chem", "Bio">>

GenSections ==
    { <<"Monday", <<9, 0>>, <<10, 0>>>>,
      <<"monday", <<10, 0>>, <<14, 20>>>>,
      <<"Funday", <<9, 30>>, <<14, 20>>>> }

\* the section lists of a course: no section twice, at most MaxSections
SectionLists(S) ==
    UNION { { l \in [1..k -> S] : \A i, j \in 1..k : l[i] = l[j] => i = j }
            : k \in 0..MaxSections }

Catalogs(S) ==
    UNION { { [i \in 1..n |-> [name |-> CourseNames[i], sections |-> f[i]]]
              : f \in [1..n -> SectionLists(S)] }
            : n \in 0..MaxCourses }

\* the file holds the record of student s1, every time as an "HH:MM" string
InitOnStore(stored) ==
    /\ users_data = EmptyStore
    /\ \E courses \in stored : data_file = FileJson("s1" :> courses)
    /\ active_student_id = None
    /\ active_courses = <<>>
    /\ current_course_sections = <<>>
    /\ output = NoOutput
    /\ valid_schedules = <<>>
    /\ schedule_infos = <<>>
    /\ last_op = Op("__init__", "", "constructed")
    /\ probe = NoProbe

InitGen == InitOnStore({ToStrings(courses) : courses \in Catalogs(GenSections)})

LoadForGenerate == \E text \in {" s1 ", "s2"} : load_student_data(text)

NextGen ==
    \/ LoadForGenerate
    \/ GenerateSchedules

SpecGen == InitGen /\ [][NextGen]_vars

----------------------------------------------------------------------------
(* load and save on a store written by an earlier session *)

\* ["Tuesday", "14:00", "15:20"] and ["friday", "00:05", "12:00"]
StoreSections ==
    { <<"Tuesday", <<"1", "4", ":", "0", "0">>, <<"1", "5", ":", "2", "0">>>>,
      <<"friday", <<"0", "0", ":", "0", "5">>, <<"1", "2", ":", "0", "0">>>> }

InitStore == InitOnStore(Catalogs(StoreSections))

NextStore ==
    \/ LoadStudentData
    \/ SaveStudentDataButton
    \/ AutoSave

SpecStore == InitStore /\ [][NextStore]_vars

----------------------------------------------------------------------------
(* editing the courses of a catalog saved by an earlier session *)

\* the catalogs save_course can have built: every course has a section
EditCatalogs ==
    { courses \in Catalogs(StoreSections) :
        \A i \in 1..Len(courses) : courses[i].sections # <<>> }

InitEdit == InitOnStore(EditCatalogs)

LoadForEdit == load_student_data(" s1 ")

\* the name typed in entry_course_name is one of the catalog's names
SaveEditedCourse ==
    \E i \in 1..MaxCourses : save_course(CourseNames[i])

NextEdit ==
    \/ LoadForEdit
    \/ EditCourse
    \/ DeleteSection
    \/ SaveEditedCourse
    \/ DeleteCourse
    \/ AutoSave

SpecEdit == InitEdit /\ [][NextEdit]_vars

----------------------------------------------------------------------------
(* times_overlap on a pair of sections *)

ProbeDays == {"Monday", "monday", "MONDAY", "Tuesday", "tuesday", "Funday"}
ProbeTimes == { <<9, 0>>, <<9, 59>>, <<10, 0>>, <<10, 30>> }
ProbeSections == ProbeDays \X ProbeTimes \X ProbeTimes

InitOverlap ==
    /\ users_data = EmptyStore
    /\ data_file = FileMissing
    /\ active_student_id = None
    /\ active_courses = <<>>
    /\ current_course_sections = <<>>
    /\ output = NoOutput
    /\ valid_schedules = <<>>
    /\ schedule_infos = <<>>
    /\ last_op = Op("__init__", "", "constructed")
    /\ \E a \in ProbeSections, b \in ProbeSections :
          probe = [a |-> a, b |-> b, ab |-> FALSE, ba |-> FALSE, done |-> FALSE]

CallTimesOverlap ==
    /\ ~probe.done
    /\ probe' = [probe EXCEPT !.ab = times_overlap(probe.a, probe.b),
                              !.ba = times_overlap(probe.b, probe.a),
                              !.done = TRUE]
    /\ UNCHANGED <<users_data, data_file, active_student_id, active_courses,
                   current_course_sections, output, valid_schedules,
                   schedule_infos, last_op>>

NextOverlap == CallTimesOverlap

SpecOverlap == InitOverlap /\ [][NextOverlap]_vars

----------------------------------------------------------------------------
(* Vocabulary of the properties, stated without the operators above *)

Minutes(t) == 60 * t[1] + t[2]

\* the spellings of one day, whatever the case
DayClasses ==
    { {"Monday", "monday", "MONDAY"}, {"Tuesday", "tuesday"}, {"Funday", "funday"} }

SameDayIgnoringCase(d1, d2) == \E c \in DayClasses : d1 \in c /\ d2 \in c

\* dayIndex: Monday..Sunday to 0..6 in any case, anything else to 999
DayIndex(d) ==
    IF d \in {"Monday", "monday", "MONDAY"} THEN 0
    ELSE IF d \in {"Tuesday", "tuesday"} THEN 1
    ELSE 999

Generated == last_op.name = "generate_schedules" /\ last_op.outcome = "generated"

NumCourses == Len(active_courses)
SectionsOf(i) == active_courses[i].sections

\* the product of the per-course section counts
RECURSIVE CountProduct(_)
CountProduct(n) == IF n = 0 THEN 1 ELSE CountProduct(n - 1) * Len(SectionsOf(n))

\* one section index per course
Choices == { t \in [1..NumCourses -> 1..MaxSections] :
               \A i \in 1..NumCourses : t[i] <= Len(SectionsOf(i)) }

Combination(t) == [i \in 1..NumCourses |-> SectionsOf(i)[t[i]]]

Conflicting(t) ==
    \E i, j \in 1..NumCourses :
        i < j /\ times_overlap(SectionsOf(i)[t[i]], SectionsOf(j)[t[j]])

\* the choice a returned schedule was made from (a course holds no section twice)
ChoiceOf(schedule) ==
    [i \in 1..NumCourses |->
        CHOOSE x \in 1..Len(SectionsOf(i)) : SectionsOf(i)[x] = schedule[i]]

\* generation order: the last course varies fastest
GeneratedBefore(u, t) ==
    \E i \in 1..NumCourses :
        u[i] < t[i] /\ \A j \in 1..(i - 1) : u[j] = t[j]

----------------------------------------------------------------------------
(* C1: for a non-empty active catalog, valid_schedules is exactly the       *)
(* non-conflicting combinations of one section per course, in the order of  *)
(* the cartesian product (courses in catalog order, sections in stored      *)
(* order, last course varying fastest).                                     *)
C1_ValidSchedulesAreTheFilteredProduct ==
    Generated =>
        /\ \A k \in 1..Len(valid_schedules) :
              /\ Len(valid_schedules[k]) = NumCourses
              /\ \A i \in 1..NumCourses :
                    \E x \in 1..Len(SectionsOf(i)) :
                        valid_schedules[k][i] = SectionsOf(i)[x]
              /\ \A i, j \in 1..NumCourses :
                    i < j => ~times_overlap(valid_schedules[k][i], valid_schedules[k][j])
        /\ \A t \in Choices :
              ~Conflicting(t) =>
                  \E k \in 1..Len(valid_schedules) : valid_schedules[k] = Combination(t)
        /\ \A k \in 1..(Len(valid_schedules) - 1) :
              GeneratedBefore(ChoiceOf(valid_schedules[k]),
                              ChoiceOf(valid_schedules[k + 1]))

C1_Witness ==
    /\ Generated
    /\ NumCourses >= 2
    /\ Len(valid_schedules) >= 2
    /\ \E t \in Choices : Conflicting(t)
    /\ \E k \in 1..(Len(valid_schedules) - 1) :
          ChoiceOf(valid_schedules[k])[NumCourses]
              < ChoiceOf(valid_schedules[k + 1])[NumCourses]

----------------------------------------------------------------------------
(* C2: times_overlap(a, b) holds exactly when the two days are equal        *)
(* ignoring case and a.start < b.end and b.start < a.end; sections on       *)
(* different days never overlap, back-to-back sections do not overlap, and  *)
(* same-day sections sharing a minute do.                                   *)
C2_OverlapIsHalfOpenIntersection ==
    probe.done =>
        LET a == probe.a
            b == probe.b
        IN  /\ probe.ab <=> /\ SameDayIgnoringCase(a[1], b[1])
                            /\ Minutes(a[2]) < Minutes(b[3])
                            /\ Minutes(b[2]) < Minutes(a[3])
            /\ ~SameDayIgnoringCase(a[1], b[1]) => ~probe.ab
            /\ (a[3] = b[2] /\ Minutes(a[2]) < Minutes(a[3])
                            /\ Minutes(b[2]) < Minutes(b[3])) => ~probe.ab
            /\ ( /\ SameDayIgnoringCase(a[1], b[1])
                 /\ \E m \in 0..1439 :
                       /\ Minutes(a[2]) <= m /\ m < Minutes(a[3])
                       /\ Minutes(b[2]) <= m /\ m < Minutes(b[3]) ) => probe.ab

C2_Witness ==
    /\ probe.done
    /\ probe.a = <<"Monday", <<9, 0>>, <<10, 0>>>>
    /\ probe.b = <<"MONDAY", <<9, 59>>, <<10, 30>>>>
    /\ probe.ab

----------------------------------------------------------------------------
(* C3: times_overlap is symmetric, also on sections with start >= end.      *)
C3_OverlapIsSymmetric ==
    probe.done => (probe.ab <=> probe.ba)

C3_Witness ==
    /\ probe.done
    /\ probe.ab
    /\ probe.ba
    /\ probe.a # probe.b
    /\ Minutes(probe.a[2]) >= Minutes(probe.a[3])

----------------------------------------------------------------------------
(* C4: a course with zero sections in the active catalog makes              *)
(* generate_schedules produce zero valid schedules.                         *)
C4_SectionlessCourseGivesNoSchedule ==
    (Generated /\ \E i \in 1..NumCourses : SectionsOf(i) = <<>>)
        => Len(valid_schedules) = 0

C4_Witness ==
    /\ Generated
    /\ \E i \in 1..NumCourses : SectionsOf(i) = <<>>
    /\ \E i \in 1..NumCourses : Len(SectionsOf(i)) >= 2
    /\ Len(valid_schedules) = 0

----------------------------------------------------------------------------
(* C5, as stated: for every catalog, the empty one included, the number of  *)
(* valid schedules is at most the product of the per-course section counts  *)
(* and equals it exactly when no combination conflicts.                     *)
C5_CountBoundForEveryCatalog ==
    (last_op.name = "generate_schedules" /\ active_student_id # None) =>
        /\ Len(valid_schedules) <= CountProduct(NumCourses)
        /\ Len(valid_schedules) = CountProduct(NumCourses)
              <=> \A t \in Choices : ~Conflicting(t)

(* C5, amended: the bound and the equality hold for every non-empty         *)
(* catalog; for the empty catalog generate_schedules is rejected with "No   *)
(* courses found" and produces no schedule, although the empty product is 1.*)
C5_CountBoundForNonEmptyCatalog ==
    /\ Generated =>
          /\ NumCourses >= 1
          /\ Len(valid_schedules) <= CountProduct(NumCourses)
          /\ Len(valid_schedules) = CountProduct(NumCourses)
                <=> \A t \in Choices : ~Conflicting(t)
    /\ ( /\ last_op.name = "generate_schedules"
         /\ active_student_id # None
         /\ active_courses = <<>> ) =>
          /\ last_op.outcome = "rejected"
          /\ output.msg = "No courses found for student"
          /\ Len(valid_schedules) = 0
          /\ CountProduct(NumCourses) = 1

C5_Witness ==
    /\ Generated
    /\ NumCourses >= 2
    /\ CountProduct(NumCourses) >= 2
    /\ Len(valid_schedules) = CountProduct(NumCourses)

----------------------------------------------------------------------------
(* C6: each displayed schedule is a permutation of the schedule's (section, *)
(* course name) pairs, one entry per course, non-decreasing by              *)
(* (dayIndex(day), start).                                                  *)
C6_DisplayOrderIsSortedPermutation ==
    Generated =>
        /\ Len(schedule_infos) = Len(valid_schedules)
        /\ \A k \in 1..Len(schedule_infos) :
              LET info == schedule_infos[k]
              IN  /\ Len(info) = NumCourses
                  /\ \A i \in 1..NumCourses :
                        \E p \in 1..Len(info) :
                            /\ info[p] = <<valid_schedules[k][i][1],
                                           valid_schedules[k][i][2],
                                           valid_schedules[k][i][3],
                                           active_courses[i].name>>
                            /\ \A q \in 1..Len(info) :
                                  info[q][4] = active_courses[i].name => q = p
                  /\ \A p \in 1..(Len(info) - 1) :
                        \/ DayIndex(info[p][1]) < DayIndex(info[p + 1][1])
                        \/ /\ DayIndex(info[p][1]) = DayIndex(info[p + 1][1])
                           /\ Minutes(info[p][2]) <= Minutes(info[p + 1][2])

C6_Witness ==
    /\ Generated
    /\ NumCourses >= 2
    /\ \E k \in 1..Len(schedule_infos) :
          /\ schedule_infos[k][1][4] # active_courses[1].name
          /\ schedule_infos[k][1][1] = "Monday"
          /\ schedule_infos[k][2][1] = "monday"
    /\ \E k \in 1..Len(schedule_infos) :
          /\ schedule_infos[k][1][4] # active_courses[1].name
          /\ schedule_infos[k][1][1] = "Monday"
          /\ schedule_infos[k][2][1] = "Funday"

----------------------------------------------------------------------------
(* C7: a successful save followed by a load of the same student id yields   *)
(* an active catalog equal to the saved one: the same course names in the   *)
(* same order, each with the same sections in the same order.               *)
C7_SaveThenLoadRoundTrip ==
    [][ ( /\ last_op.name \in {"save_student_data", "auto_save"}
          /\ last_op.outcome = "written"
          /\ last_op'.name = "load_student_data"
          /\ last_op'.outcome # "rejected"
          /\ active_student_id' = active_student_id )
        => /\ last_op'.outcome = "reloaded"
           /\ Len(active_courses') = Len(active_courses)
           /\ \A i \in 1..Len(active_courses) :
                 /\ active_courses'[i].name = active_courses[i].name
                 /\ active_courses'[i].sections = active_courses[i].sections ]_vars

C7_Witness ==
    /\ last_op.name = "load_student_data"
    /\ last_op.outcome = "reloaded"
    /\ Len(active_courses) >= 2
    /\ Len(active_courses[1].sections) >= 2
    /\ active_courses[1].sections # active_courses[2].sections
    /\ \E j \in 1..Len(active_courses[1].sections) :
          active_courses[1].sections[j] = <<"Tuesday", <<14, 0>>, <<15, 20>>>>

----------------------------------------------------------------------------
(* C8, as stated: every save that fails to write the store reports the      *)
(* failure with a reason, the saves issued by auto_save included.           *)
WriteFailed == last_op.outcome \in {"open_failed", "dump_failed"}

C8_EveryWriteFailureReported ==
    WriteFailed => (output.msg = "Error saving data" /\ output.detail # "")

(* C8, amended: a save requested through save_student_data() (auto=False)   *)
(* that fails to write reports "Error saving data" with the reason; a save  *)
(* issued by auto_save (auto=True) that fails to write reports nothing.     *)
C8_ManualWriteFailureReported ==
    /\ (WriteFailed /\ last_op.arg = "button") =>
          (output.msg = "Error saving data" /\ output.detail # "")
    /\ (WriteFailed /\ last_op.arg = "auto") => output = NoOutput

C8_Witness ==
    /\ WriteFailed
    /\ last_op.name = "save_student_data"
    /\ active_courses # <<>>
    /\ data_file.state = "corrupt"

----------------------------------------------------------------------------
(* C9: load_student_data(id) with a non-empty id makes the active catalog   *)
(* the catalog the store holds for id, or the empty catalog when the store  *)
(* has no record of id or is missing or corrupt; no error is surfaced and   *)
(* id becomes the active student.                                           *)
C9_LoadGivesStoredCatalogOrEmpty ==
    (last_op.name = "load_student_data" /\ last_op.outcome # "rejected") =>
        /\ active_student_id = Strip(last_op.arg)
        /\ output = Message("Loaded data for student ID", active_student_id)
        /\ active_courses =
              IF data_file.state = "json" /\ active_student_id \in DOMAIN data_file.content
              THEN ToTimes(data_file.content[active_student_id])
              ELSE <<>>

----------------------------------------------------------------------------
(* C10: a rejected add_section, delete_section, edit_course, delete_course, *)
(* save_course or generate_schedules leaves the editor's section list, the  *)
(* active catalog, the active student id and the persisted store unchanged  *)
(* and tells the caller why.                                                *)
RejectingHandlers ==
    {"add_section", "delete_section", "edit_course", "delete_course",
     "save_course", "generate_schedules"}

C10_RejectedRequestIsNoOp ==
    [][ (last_op'.name \in RejectingHandlers /\ last_op'.outcome = "rejected")
        => /\ current_course_sections' = current_course_sections
           /\ active_courses' = active_courses
           /\ active_student_id' = active_student_id
           /\ data_file' = data_file
           /\ users_data' = users_data
           /\ output'.msg # "" ]_vars

C10_Witness ==
    /\ last_op.name = "delete_section"
    /\ last_op.outcome = "rejected"
    /\ current_course_sections # <<>>
    /\ active_courses # <<>>
    /\ data_file.state = "json"

----------------------------------------------------------------------------
(* Vocabulary of the store properties *)

\* the student ids the file holds a record of
Records(file) == IF file.state = "json" THEN DOMAIN file.content ELSE {}

\* start < end on a section held as times
StartsBeforeEnd(section) == Minutes(section[2]) < Minutes(section[3])

\* start < end on a section held as ["day", "HH:MM", "HH:MM"]
StoredStartsBeforeEnd(section) ==
    Minutes(string_to_time(section[2])) < Minutes(string_to_time(section[3]))

----------------------------------------------------------------------------
(* C11: from an empty store, every section held in the editor, in the       *)
(* active catalog and in the persisted store has start < end strictly.      *)
C11_EverySectionStartsBeforeItEnds ==
    /\ \A j \in 1..Len(current_course_sections) :
          StartsBeforeEnd(current_course_sections[j])
    /\ \A i \in 1..Len(active_courses) :
          \A j \in 1..Len(active_courses[i].sections) :
              StartsBeforeEnd(active_courses[i].sections[j])
    /\ \A sid \in Records(data_file) :
          \A i \in 1..Len(data_file.content[sid]) :
              \A j \in 1..Len(data_file.content[sid][i].sections) :
                  StoredStartsBeforeEnd(data_file.content[sid][i].sections[j])

C11_Witness ==
    /\ last_op.name = "add_section"
    /\ last_op.outcome = "rejected"
    /\ output.msg = "End time must be after start time."
    /\ current_course_sections # <<>>
    /\ active_courses # <<>>
    /\ \E sid \in Records(data_file) : data_file.content[sid] # <<>>

----------------------------------------------------------------------------
(* C12: a save replaces only the active student's persisted catalog: every  *)
(* record the store held before a step is still in the store after it, and  *)
(* every record of a student other than the active one is unchanged.        *)
C12_NoRecordIsRemovedOrTouched ==
    [][\A sid \in Records(data_file) :
          /\ sid \in Records(data_file')
          /\ sid # active_student_id =>
                data_file'.content[sid] = data_file.content[sid]]_vars

----------------------------------------------------------------------------
(* C13: from an empty store, every course in the active catalog and every   *)
(* course of every record in the persisted store has at least one section.  *)
C13_EveryCourseHasASection ==
    /\ \A i \in 1..Len(active_courses) : Len(active_courses[i].sections) >= 1
    /\ \A sid \in Records(data_file) :
          \A i \in 1..Len(data_file.content[sid]) :
              Len(data_file.content[sid][i].sections) >= 1

\* save_course has just refused an emptied editor while the store holds courses
C13_Witness ==
    /\ last_op.name = "save_course"
    /\ last_op.outcome = "rejected"
    /\ output.msg = "No sections for this course."
    /\ current_course_sections = <<>>
    /\ \E sid \in Records(data_file) : data_file.content[sid] # <<>>

----------------------------------------------------------------------------
(* Vocabulary of the editing property *)

\* a catalog as the set of its (course name, section list) pairs
Mapping(courses) ==
    { <<courses[i].name, courses[i].sections>> : i \in 1..Len(courses) }

\* the last operation was edit_course(c), which took a course
Editing(op) == op.name = "edit_course" /\ op.outcome = "editing"

\* the operations that let go of the sections the editor holds
Releasing == {"save_course", "delete_course", "add_section", "delete_section"}

----------------------------------------------------------------------------
(* C14: editing does not lose course data.  (1) edit_course(c) removes c    *)
(* from the active catalog and makes the editor hold exactly c's sections;  *)
(* (2) on the step after it, unless that step is save_course or             *)
(* delete_course (or the user's own add_section / delete_section on the     *)
(* held list), the sections of c are still held in the editor or are in the *)
(* active catalog under c; (3) save_course under the name c right after     *)
(* edit_course(c) gives back a catalog mapping the same names to the same   *)
(* section lists as before the edit.                                        *)
C14_EditingLosesNoCourseData ==
    [][/\ Editing(last_op') =>
            \E i \in 1..Len(active_courses) :
                /\ active_courses[i].name = last_op'.arg
                /\ current_course_sections' = active_courses[i].sections
                /\ Mapping(active_courses') =
                     Mapping(active_courses) \ {<<last_op'.arg, active_courses[i].sections>>}
       /\ (Editing(last_op) /\ last_op'.name \notin Releasing) =>
            \/ current_course_sections' = current_course_sections
            \/ <<last_op.arg, current_course_sections>> \in Mapping(active_courses')
       /\ (Editing(last_op) /\ last_op'.name = "save_course"
                            /\ Strip(last_op'.arg) = last_op.arg) =>
            Mapping(active_courses') =
                Mapping(active_courses) \cup {<<last_op.arg, current_course_sections>>}]_vars

====
